---- MODULE Spec2Model ----
(***************************************************************************)
(* Charger-availability reservation and charging-session lifecycle of the  *)
(* Bariq server: the handlers of server/routes.ts                           *)
(*   PATCH /api/stations/:id/availability                                   *)
(*   POST  /api/charging-sessions/start                                     *)
(*   POST  /api/charging-sessions/:id/end                                   *)
(* over the DatabaseStorage methods they call.  Every `await storage.x()`   *)
(* is one atomic database statement; the JavaScript between two awaits      *)
(* runs without interruption, so one action is one statement together with  *)
(* the code that follows it up to the next await.  Requests are served      *)
(* concurrently: several handlers may be suspended at an await at once.     *)
(* The suspended handlers are anonymous activations of the same closures,   *)
(* so they are kept as a bag of their local states.                         *)
(***************************************************************************)
EXTENDS Integers, FiniteSets, Sequences, Bags, TLC

\* ------------------------------------------------------------------ bounds
NumProcs == 2
MaxSessions == 2
MaxBatch == 2

\* the stations of the database, by id, with their number of chargers:
\* station 1 has the column default, station 2 is a seeded station
ChargerCatalog == <<1, 2>>

Stations == DOMAIN ChargerCatalog
\* station ids a request may name: the existing ones and one that does not exist
MissingStation == Len(ChargerCatalog) + 1
StationIds == Stations \cup {MissingStation}
\* session ids a request may name: every id the serial can give, so that a
\* request may also name a session that does not (yet) exist
SessionIds == 1..MaxSessions
\* the users who start sessions, and the users who ask to end one
Owners == {"u1"}
Users == Owners \cup {"u2"}
NoUser == "none"
\* userId of startChargingSession(stationId, ..., userId?): the id of a user,
\* or undefined, in which case the session is stored without owner
\* (charging_sessions.user_id is nullable)
Starters == Owners \cup {NoUser}
\* input.batteryEndPercent of an end call: the value every call sends, and
\* the values of calls that send different ones
EndInputs == {80}
EndInputsMixed == {80, 90}
NULL == 0
\* the value of a null timestamp or duration column
NoTime == 0 - 1
\* the divisor of endChargingSession: milliseconds in a minute
MsPerMinute == 60000
\* the readings new Date().getTime() takes, in milliseconds since the first
Instants == {0, 30000, 89999, 90000}

VARIABLES
  chargerCount,       \* stations.charger_count            [Stations -> Nat]
  availableChargers,  \* stations.available_chargers       [Stations -> Int]
  sessions,           \* charging_sessions rows, by id
  nextId,             \* the serial of charging_sessions.id
  handlers,           \* the suspended request handlers: a bag of their locals
  result,             \* the response sent by the last step, NoResponse if it sent none
  w,                  \* history of the calls since the system was last at rest
  now                 \* the server clock, what new Date() reads

vars == <<chargerCount, availableChargers, sessions, nextId, handlers, result, w, now>>

\* The locals of a suspended handler: the await it is suspended at (pc),
\* input.stationId / session.stationId (station), req.user.id (user),
\* session.id / sessionId (session), `available` or, in the availability
\* update, input.availableChargers (avail), and in an end call
\* input.batteryEndPercent until it is stored (body).
Handler(label, s, u, i, a) ==
  [pc |-> label, station |-> s, user |-> u, session |-> i, avail |-> a,
   body |-> NULL]
Suspended == BagToSet(handlers)
One(h) == SetToBag({h})

\* ------------------------------------------------------------ responses
Resp(status, message, sid) == [status |-> status, message |-> message, session |-> sid]
NoResponse == Resp(0, "", NULL)
Thrown == Resp(500, "Internal Server Error", NULL)
\* a start handler without its test of the station: station.availableChargers
\* of undefined throws
StationNotFound_Mut == Resp(500, "Internal Server Error", NULL)
StationNotFound == Resp(404, "Station not found", NULL)
NoAvailableChargers == Resp(400, "No available chargers", NULL)
Created(sid) == Resp(201, "", sid)
SessionNotFound == Resp(404, "Session not found", NULL)
Forbidden == Resp(403, "Cannot end another user's session", NULL)
\* the refusal of an ended session sent with the answer of the owner check
AlreadyEnded_Mut == Resp(403, "Cannot end another user's session", NULL)
AlreadyEnded == Resp(400, "Session already ended", NULL)
Ended(sid) == Resp(200, "", sid)
ExceedsTotal == Resp(400, "Available chargers cannot exceed total chargers", NULL)
ValidationError == Resp(400, "validation", NULL)
Updated == Resp(200, "", NULL)

\* ------------------------------------------------------------- helpers
\* station.availableChargers ?? 0
AvailOf(s) == availableChargers[s]
\* station.chargerCount ?? 1
TotalOf(s) == chargerCount[s]
ActiveIds(s) == {i \in DOMAIN sessions : sessions[i].stationId = s /\ sessions[i].isActive}
ActiveCount(s) == Cardinality(ActiveIds(s))
Quiescent == handlers = EmptyBag
ZeroS == [s \in Stations |-> 0]

\* -------------------------------------------- history of the current window
\* A window is the stretch of execution between two states at rest (no
\* handler suspended).  w remembers the counter and the active sessions at
\* the start of the window and counts, per station, the starts answered 201,
\* the starts answered "No available chargers" and the ends answered 200.
\* A window in which anything else happened (another answer, a storage
\* fault, an availability update) is marked `other` and its counts dropped.
\* `prev` remembers the window before, if that was a single start call
\* answered 201: the session it created and the counter it found.
NoStart == [session |-> NULL, before |-> 0]
FirstWindow ==
  [base |-> availableChargers,
   baseActive |-> [s \in Stations |-> ActiveCount(s)],
   calls |-> 0,
   created |-> ZeroS, exhausted |-> ZeroS, ended |-> ZeroS,
   other |-> FALSE,
   prev |-> NoStart]

\* the window that is over was a single start call answered 201
PrevStart ==
  IF /\ ~w.other
     /\ result.status = 201
     /\ \A s \in Stations : w.exhausted[s] = 0 /\ w.ended[s] = 0
     /\ \A s \in Stations :
          w.created[s] = IF s = sessions[result.session].stationId THEN 1 ELSE 0
    THEN [session |-> result.session,
          before |-> w.base[sessions[result.session].stationId]]
    ELSE NoStart

NewWindow == [FirstWindow EXCEPT !.prev = PrevStart]

Opened == IF Quiescent THEN NewWindow ELSE w
Called == [Opened EXCEPT !.calls = @ + 1]
WOther(x) ==
  [base |-> ZeroS, baseActive |-> ZeroS, calls |-> x.calls,
   created |-> ZeroS, exhausted |-> ZeroS, ended |-> ZeroS, other |-> TRUE,
   prev |-> NoStart]
WCreated(x, s) == IF x.other THEN x ELSE [x EXCEPT !.created[s] = @ + 1]
WExhausted(x, s) == IF x.other THEN x ELSE [x EXCEPT !.exhausted[s] = @ + 1]
WEnded(x, s) == IF x.other THEN x ELSE [x EXCEPT !.ended[s] = @ + 1]

\* ----------------------------------------------------------------- Init
\* A database with all chargers free and no charging session yet: station 1
\* has the column defaults (charger_count 1, available_chargers 1), station 2
\* is a seeded station with chargerCount 2 and availableChargers 2.
Init ==
  /\ chargerCount = [s \in Stations |-> ChargerCatalog[s]]
  /\ availableChargers = chargerCount
  /\ sessions = << >>
  /\ nextId = 1
  /\ handlers = EmptyBag
  /\ result = NoResponse
  /\ w = FirstWindow
  /\ now = 0

\* ------------------------------------------------------ storage statements
\* an update of the counter without its WHERE clause
updateStationAvailability_Mut(s, n) == [x \in Stations |-> n]

\* DatabaseStorage.updateStationAvailability: UPDATE stations SET
\* available_chargers = n WHERE id = s
updateStationAvailability(s, n) == [availableChargers EXCEPT ![s] = n]

\* DatabaseStorage.startChargingSession: INSERT ... isActive: true
startChargingSession(s, u) ==
  sessions @@ (nextId :> [stationId |-> s, userId |-> u, isActive |-> TRUE,
                          batteryEndPercent |-> NULL, startTime |-> now,
                          endTime |-> NoTime, durationMinutes |-> NoTime])

\* Math.round(n / d) for d > 0: the nearest integer, a half rounded up
MathRound_Mut(n, d) == n \div d
MathRound(n, d) == (2 * n + d) \div (2 * d)

\* const durationMinutes = session.startTime ? Math.round(...) : null
durationMinutes(startTime, endTime) ==
  IF startTime # NoTime THEN MathRound(endTime - startTime, MsPerMinute) ELSE NoTime

\* an end that stores no end time
endChargingSession_Mut(i, b) ==
  [sessions EXCEPT ![i].isActive = FALSE, ![i].batteryEndPercent = b]

\* DatabaseStorage.endChargingSession: SELECT the row (undefined if absent),
\* then UPDATE ... SET endTime, durationMinutes, batteryEndPercent, energyKwh,
\* isActive = false WHERE id = i, whatever isActive was; batteryEndPercent
\* stands for the values the call stores.  The select feeds only
\* the existence test and the immutable startTime, so the two statements are
\* taken as one.
endChargingSession(i, b) ==
  [sessions EXCEPT ![i].isActive = FALSE, ![i].batteryEndPercent = b,
                   ![i].endTime = now,
                   ![i].durationMinutes = durationMinutes(sessions[i].startTime, now)]

\* a deleteSession without its WHERE clause
deleteSession_All(i) == << >>

\* a deleteSession that deletes nothing
deleteSession_Mut(i) == sessions

\* DatabaseStorage.deleteSession: DELETE FROM charging_sessions WHERE id = i
deleteSession(i) == [j \in (DOMAIN sessions) \ {i} |-> sessions[j]]

\* the query for the active session without its isActive condition
getActiveSession_Mut(sid) ==
  {i \in DOMAIN sessions : sessions[i].stationId = sid}

\* DatabaseStorage.getActiveSession: the rows of SELECT ... WHERE station_id
\* = sid AND is_active = true; the method returns the first of them, and
\* the query has no ORDER BY
getActiveSession(sid) ==
  {i \in DOMAIN sessions : sessions[i].stationId = sid /\ sessions[i].isActive}

\* ------------------------------------------------------ handler plumbing
\* a request can be taken: a handler slot is free and the window has room
CanBegin ==
  /\ BagCardinality(handlers) < NumProcs
  /\ Quiescent \/ w.calls < MaxBatch

\* when a response brings the system to rest, the window is over and the
\* number of calls begun in it is no longer needed
Settle(rest, x) == IF rest THEN [x EXCEPT !.calls = 0] ELSE x
Alone(h) == handlers = One(h)

\* a request is answered by the code that runs before its first await
Answer(r) ==
  /\ handlers' = handlers
  /\ result' = r
  /\ now' = now

\* a request is suspended at its first await
Suspend(h) ==
  /\ handlers' = handlers (+) One(h)
  /\ result' = NoResponse
  /\ now' = now

\* the suspended handler h resumes and sends its response
Respond(h, r) ==
  /\ handlers' = handlers (-) One(h)
  /\ result' = r
  /\ now' = now

\* the suspended handler h resumes and is suspended at its next await as h2
Await(h, h2) ==
  /\ handlers' = (handlers (-) One(h)) (+) One(h2)
  /\ result' = NoResponse
  /\ now' = now

\* h is suspended at the await `label`
At(h, label) == BagIn(h, handlers) /\ h.pc = label

\* ------------------------------------------ POST /api/charging-sessions/start
\* the capacity check with the comparison off by one
NoCapacity_Mut(available) == available < 0

\* the guard of the start handler: available <= 0
NoCapacity(available) == available <= 0

\* the start handlers suspended before their insert
InsertsPending ==
  BagCardinality([h \in {x \in Suspended : x.pc = "start_insert"} |-> CopiesIn(h, handlers)])

\* request received, storage.getStation, the 404 and the capacity check
StartGetStation(sid, uid) ==
  /\ CanBegin
  /\ UNCHANGED <<chargerCount, availableChargers, sessions, nextId>>
  /\ IF sid \notin Stations
       THEN /\ Answer(StationNotFound)
            /\ w' = Settle(Quiescent, WOther(Called))
       ELSE IF NoCapacity(AvailOf(sid))
         THEN /\ Answer(NoAvailableChargers)
              /\ w' = Settle(Quiescent, WExhausted(Called, sid))
         ELSE /\ nextId + InsertsPending <= MaxSessions
              /\ Suspend(Handler("start_insert", sid, uid, NULL, AvailOf(sid)))
              /\ w' = Called

\* storage.startChargingSession
StartInsert(h) ==
  /\ At(h, "start_insert")
  /\ sessions' = startChargingSession(h.station, h.user)
  /\ nextId' = nextId + 1
  /\ Await(h, Handler("start_update", h.station, NoUser, nextId, h.avail))
  /\ UNCHANGED <<chargerCount, availableChargers, w>>

\* storage.startChargingSession throws: the handler rethrows
StartInsertFails(h) ==
  /\ At(h, "start_insert")
  /\ Respond(h, Thrown)
  /\ w' = Settle(Alone(h), WOther(w))
  /\ UNCHANGED <<chargerCount, availableChargers, sessions, nextId>>

\* the reservation that writes the counter back as it was read
StartWrite_Mut(available) == available

\* the value the start handler writes to the counter
StartWrite(available) == available - 1

\* storage.updateStationAvailability(stationId, available - 1), then 201
StartUpdate(h) ==
  /\ At(h, "start_update")
  /\ availableChargers' = updateStationAvailability(h.station, StartWrite(h.avail))
  /\ Respond(h, Created(h.session))
  /\ w' = Settle(Alone(h), WCreated(w, h.station))
  /\ UNCHANGED <<chargerCount, sessions, nextId>>

\* storage.updateStationAvailability throws: the catch block runs
StartUpdateFails(h) ==
  /\ At(h, "start_update")
  /\ Await(h, [h EXCEPT !.pc = "start_rollback"])
  /\ w' = WOther(w)
  /\ UNCHANGED <<chargerCount, availableChargers, sessions, nextId>>

\* catch: storage.deleteSession(session.id), then throw err
StartRollback(h) ==
  /\ At(h, "start_rollback")
  /\ sessions' = deleteSession(h.session)
  /\ Respond(h, Thrown)
  /\ w' = Settle(Alone(h), w)
  /\ UNCHANGED <<chargerCount, availableChargers, nextId>>

\* catch: storage.deleteSession throws as well
StartRollbackFails(h) ==
  /\ At(h, "start_rollback")
  /\ Respond(h, Thrown)
  /\ w' = Settle(Alone(h), w)
  /\ UNCHANGED <<chargerCount, availableChargers, sessions, nextId>>

\* the reconciliation events on record: the catch block of the start
\* handler has two statements, storage.deleteSession and throw err, and
\* neither the handler nor the storage keeps a record of a failed rollback
reconciliationEvents == {}

\* ---------------------------------------- POST /api/charging-sessions/:id/end
\* the owner check made after the test that the session is still active
NotOwner_Late(session, uid) ==
  session.isActive /\ session.userId # NoUser /\ session.userId # uid

\* the owner check without its exemption of sessions that have no owner
NotOwner_Mut(session, uid) == session.userId # uid

\* existingSession.userId && existingSession.userId !== userId
NotOwner(session, uid) == session.userId # NoUser /\ session.userId # uid

\* the end handler without its test that the session is still active
SessionEnded_Mut(session) == FALSE

\* !existingSession.isActive
SessionEnded(session) == ~session.isActive

\* request received, storage.getSessionById, the 404 / 403 / 400 checks
EndGetSession(i, uid, b) ==
  /\ CanBegin
  /\ UNCHANGED <<chargerCount, availableChargers, sessions, nextId>>
  /\ IF i \notin DOMAIN sessions
       THEN /\ Answer(SessionNotFound)
            /\ w' = Settle(Quiescent, WOther(Called))
       ELSE IF NotOwner(sessions[i], uid)
         THEN /\ Answer(Forbidden)
              /\ w' = Settle(Quiescent, WOther(Called))
         ELSE IF SessionEnded(sessions[i])
           THEN /\ Answer(AlreadyEnded)
                /\ w' = Settle(Quiescent, WOther(Called))
           ELSE /\ Suspend([Handler("end_endSession", NULL, NoUser, i, NULL)
                              EXCEPT !.body = b])
                /\ w' = Called

\* storage.endChargingSession; undefined if the row is gone
EndEndSession(h) ==
  /\ At(h, "end_endSession")
  /\ IF h.session \notin DOMAIN sessions
       THEN /\ Respond(h, SessionNotFound)
            /\ w' = Settle(Alone(h), WOther(w))
            /\ UNCHANGED sessions
       ELSE /\ sessions' = endChargingSession(h.session, h.body)
            /\ Await(h, Handler("end_getStation", sessions[h.session].stationId,
                                NoUser, h.session, NULL))
            /\ UNCHANGED w
  /\ UNCHANGED <<chargerCount, availableChargers, nextId>>

\* storage.endChargingSession throws
EndEndSessionFails(h) ==
  /\ At(h, "end_endSession")
  /\ Respond(h, Thrown)
  /\ w' = Settle(Alone(h), WOther(w))
  /\ UNCHANGED <<chargerCount, availableChargers, sessions, nextId>>

\* the release guard with the comparison off by one
MayRelease_Mut(available, total) == available <= total

\* the guard of the release: available < total
MayRelease(available, total) == available < total

\* storage.getStation(session.stationId) and the guard of the release
EndGetStation(h) ==
  /\ At(h, "end_getStation")
  /\ IF MayRelease(AvailOf(h.station), TotalOf(h.station))
       THEN /\ Await(h, Handler("end_update", h.station, NoUser, h.session, AvailOf(h.station)))
            /\ UNCHANGED w
       ELSE /\ Respond(h, Ended(h.session))
            /\ w' = Settle(Alone(h), WEnded(w, h.station))
  /\ UNCHANGED <<chargerCount, availableChargers, sessions, nextId>>

\* storage.getStation throws after the session was ended
EndGetStationFails(h) ==
  /\ At(h, "end_getStation")
  /\ Respond(h, Thrown)
  /\ w' = Settle(Alone(h), WOther(w))
  /\ UNCHANGED <<chargerCount, availableChargers, sessions, nextId>>

\* the release that writes the counter back as it was read
EndWrite_Mut(available) == available

\* the value the end handler writes to the counter
EndWrite(available) == available + 1

\* storage.updateStationAvailability(session.stationId, available + 1), then 200
EndUpdate(h) ==
  /\ At(h, "end_update")
  /\ availableChargers' = updateStationAvailability(h.station, EndWrite(h.avail))
  /\ Respond(h, Ended(h.session))
  /\ w' = Settle(Alone(h), WEnded(w, h.station))
  /\ UNCHANGED <<chargerCount, sessions, nextId>>

\* storage.updateStationAvailability throws after the session was ended
EndUpdateFails(h) ==
  /\ At(h, "end_update")
  /\ Respond(h, Thrown)
  /\ w' = Settle(Alone(h), WOther(w))
  /\ UNCHANGED <<chargerCount, availableChargers, sessions, nextId>>

\* ------------------------------------------ PATCH /api/stations/:id/availability
\* z.number().min(0)
ValidAvailability(n) == n >= 0
\* the availability update without its comparison with the charger count
OverTotal_Mut(n, count) == FALSE

\* input.availableChargers > (station.chargerCount || 1)
OverTotal(n, count) == n > (IF count = 0 THEN 1 ELSE count)

\* request received, input parsed, storage.getStation, the 404 / 400 checks
PatchGetStation(sid, n) ==
  /\ CanBegin
  /\ UNCHANGED <<chargerCount, availableChargers, sessions, nextId>>
  /\ IF ~ValidAvailability(n)
       THEN /\ Answer(ValidationError)
            /\ w' = Settle(Quiescent, WOther(Called))
       ELSE IF sid \notin Stations
         THEN /\ Answer(StationNotFound)
              /\ w' = Settle(Quiescent, WOther(Called))
         ELSE IF OverTotal(n, chargerCount[sid])
           THEN /\ Answer(ExceedsTotal)
                /\ w' = Settle(Quiescent, WOther(Called))
           ELSE /\ Suspend(Handler("patch_update", sid, NoUser, NULL, n))
                /\ w' = WOther(Called)

\* storage.updateStationAvailability(id, input.availableChargers), then 200
PatchUpdate(h) ==
  /\ At(h, "patch_update")
  /\ availableChargers' = updateStationAvailability(h.station, h.avail)
  /\ Respond(h, Updated)
  /\ w' = Settle(Alone(h), w)
  /\ UNCHANGED <<chargerCount, sessions, nextId>>

\* ------------------------------------------ GET /api/stations/:id/active-session
\* res.json(session || null)
ActiveSession(i) == Resp(200, "", i)

\* storage.getActiveSession and the answer; the handler has this one
\* statement
GetActive(sid) ==
  /\ IF getActiveSession(sid) = {}
       THEN result' = ActiveSession(NULL)
       ELSE \E i \in getActiveSession(sid) : result' = ActiveSession(i)
  /\ UNCHANGED <<chargerCount, availableChargers, sessions, nextId, handlers, w, now>>

\* ------------------------------------------------------------ specification
\* the availability updates a client may send: for every station each value
\* from 0 to one more than its chargers, a value refused by the validation,
\* and a station that does not exist
PatchInputs ==
  UNION {{<<sid, n>> : n \in 0..(ChargerCatalog[sid] + 1)} : sid \in Stations}
    \cup {<<1, 0 - 1>>, <<MissingStation, 0>>}

Begin ==
  \/ \E sid \in StationIds, uid \in Owners : StartGetStation(sid, uid)
  \/ \E i \in SessionIds, uid \in Users, b \in EndInputs : EndGetSession(i, uid, b)
  \/ \E in \in PatchInputs : PatchGetStation(in[1], in[2])

Continue ==
  \/ \E h \in Suspended : StartInsert(h)
  \/ \E h \in Suspended : StartInsertFails(h)
  \/ \E h \in Suspended : StartUpdate(h)
  \/ \E h \in Suspended : StartUpdateFails(h)
  \/ \E h \in Suspended : StartRollback(h)
  \/ \E h \in Suspended : StartRollbackFails(h)
  \/ \E h \in Suspended : EndEndSession(h)
  \/ \E h \in Suspended : EndEndSessionFails(h)
  \/ \E h \in Suspended : EndGetStation(h)
  \/ \E h \in Suspended : EndGetStationFails(h)
  \/ \E h \in Suspended : EndUpdate(h)
  \/ \E h \in Suspended : EndUpdateFails(h)
  \/ \E h \in Suspended : PatchUpdate(h)

Next == Begin \/ Continue

\* requests are served concurrently
Spec == Init /\ [][Next]_vars

\* one request at a time: a call begins only when no handler is suspended
SeqNext == (Quiescent /\ Begin) \/ Continue

SpecSeq == Init /\ [][SeqNext]_vars

\* the same requests, with start calls that carry no user id as well
BeginAnon ==
  \/ \E sid \in StationIds, uid \in Starters : StartGetStation(sid, uid)
  \/ \E i \in SessionIds, uid \in Users, b \in EndInputs : EndGetSession(i, uid, b)
  \/ \E in \in PatchInputs : PatchGetStation(in[1], in[2])

SeqAnonNext == (Quiescent /\ BeginAnon) \/ Continue

\* one request at a time, sessions with and without owner
SpecAnon == Init /\ [][SeqAnonNext]_vars

\* the same requests, with end calls that send different values
BeginMixed ==
  \/ \E sid \in StationIds, uid \in Owners : StartGetStation(sid, uid)
  \/ \E i \in SessionIds, uid \in Users, b \in EndInputsMixed : EndGetSession(i, uid, b)
  \/ \E in \in PatchInputs : PatchGetStation(in[1], in[2])

MixedNext == BeginMixed \/ Continue

\* requests are served concurrently, end calls send different values
SpecMixed == Init /\ [][MixedNext]_vars

\* one start, end or availability update at a time, and queries for the
\* active session at any moment
ReadNext == SeqNext \/ \E sid \in StationIds : GetActive(sid)

SpecRead == Init /\ [][ReadNext]_vars

\* start and end calls only, one at a time, and no storage fault
BeginPlain ==
  \/ \E sid \in StationIds, uid \in Owners : StartGetStation(sid, uid)
  \/ \E i \in SessionIds, uid \in Users, b \in EndInputs : EndGetSession(i, uid, b)

ContinuePlain ==
  \/ \E h \in Suspended : StartInsert(h)
  \/ \E h \in Suspended : StartUpdate(h)
  \/ \E h \in Suspended : EndEndSession(h)
  \/ \E h \in Suspended : EndGetStation(h)
  \/ \E h \in Suspended : EndUpdate(h)

PlainNext == (Quiescent /\ BeginPlain) \/ ContinuePlain

SpecPlain == Init /\ [][PlainNext]_vars

\* time passes: the clock moves on to a later reading
Tick ==
  /\ \E t \in Instants : t > now /\ now' = t
  /\ UNCHANGED <<chargerCount, availableChargers, sessions, nextId, handlers, result, w>>

\* one start or end at a time, while time passes
ClockNext == PlainNext \/ Tick

SpecClock == Init /\ [][ClockNext]_vars

TypeOK ==
  /\ availableChargers \in [Stations -> Int]
  /\ nextId \in 1..(MaxSessions + 1)
  /\ DOMAIN sessions \subseteq SessionIds
  /\ BagCardinality(handlers) <= NumProcs

\* ------------------------------------------------------------------ claims
Consistent(s) == AvailOf(s) + ActiveCount(s) = TotalOf(s)
BaseConsistent(s) == w.base[s] + w.baseActive[s] = TotalOf(s)
\* the window just over held only starts and ends, each answered 201,
\* "No available chargers" or 200, and no storage fault
CleanWindow == Quiescent /\ ~w.other
OnlyEnds == \A s \in Stations : w.created[s] = 0 /\ w.exhausted[s] = 0

\* C1: at rest, available chargers plus active sessions equals the charger
\* count of every station.  Stated for a window of start and end calls only
\* (no availability update, no storage fault) that began in a state where
\* the equality held: the equality holds again when the window is over.
C1_CounterPlusActiveIsTotal ==
  CleanWindow /\ (\A s \in Stations : BaseConsistent(s))
    => \A s \in Stations : Consistent(s)

\* C2: the active sessions of a station never outnumber its chargers.
C2_ActiveWithinTotal ==
  \A s \in Stations : ActiveCount(s) <= TotalOf(s)

\* C3: at rest the counter of every station lies between 0 and the
\* station's charger count.
C3_CounterInRange ==
  Quiescent => \A s \in Stations : 0 <= AvailOf(s) /\ AvailOf(s) <= TotalOf(s)

\* C3 witness: at rest, with a station whose last charger was taken by a
\* start and a station brought back to its full count by an end.
C3_Witness ==
  /\ Quiescent
  /\ \E s \in Stations : AvailOf(s) = 0 /\ ActiveCount(s) > 0
  /\ \E i \in DOMAIN sessions :
       /\ ~sessions[i].isActive
       /\ AvailOf(sessions[i].stationId) = TotalOf(sessions[i].stationId)

\* C4 (scenario A): on a station with one charger, free, two overlapping
\* starts and nothing else: one is answered 201, the other "No available
\* chargers", the counter ends at 0 and one session is active.
C4_ScenarioA ==
  \A s \in Stations :
    ( /\ CleanWindow
      /\ TotalOf(s) = 1 /\ w.base[s] = 1 /\ w.baseActive[s] = 0
      /\ w.created[s] + w.exhausted[s] = 2 /\ w.ended[s] = 0 )
    => ( /\ w.created[s] = 1 /\ w.exhausted[s] = 1
         /\ AvailOf(s) = 0 /\ ActiveCount(s) = 1 )

\* C5 (scenario B): on a station with two chargers, both free, two
\* overlapping starts are both answered 201 and the counter ends at 0; with
\* a third start in the window, that one is answered "No available chargers".
C5_ScenarioB ==
  \A s \in Stations :
    ( /\ CleanWindow
      /\ TotalOf(s) = 2 /\ w.base[s] = 2 /\ w.baseActive[s] = 0
      /\ w.ended[s] = 0 )
    => /\ w.created[s] + w.exhausted[s] = 2
            => w.created[s] = 2 /\ AvailOf(s) = 0
       /\ w.created[s] + w.exhausted[s] = 3
            => w.created[s] = 2 /\ w.exhausted[s] = 1 /\ AvailOf(s) = 0

\* C6: every end answered 200 leaves the counter one higher.  Stated for a
\* window of ends only, begun with counter and sessions in agreement, in
\* which the ends answered 200 ended different sessions: the counter has
\* risen by the number of those ends.
C6_ReleasedOncePerEnd ==
  \A s \in Stations :
    ( /\ CleanWindow /\ OnlyEnds /\ BaseConsistent(s)
      /\ ActiveCount(s) = w.baseActive[s] - w.ended[s] )
    => AvailOf(s) = w.base[s] + w.ended[s]

\* an end call by the owner of a session that is already ended is answered
\* "Session already ended" at once and changes neither session nor counter
SecondEndRefused ==
  \A i \in SessionIds, uid \in Users, b \in EndInputs :
    ( /\ i \in DOMAIN sessions
      /\ ~sessions[i].isActive
      /\ sessions[i].userId = uid
      /\ EndGetSession(i, uid, b) )
    => /\ result' = AlreadyEnded
       /\ UNCHANGED <<sessions, availableChargers, handlers>>

C8_OneEndPerSession ==
  \A s \in Stations :
    CleanWindow /\ OnlyEnds => w.ended[s] = w.baseActive[s] - ActiveCount(s)

\* a start call answers with a failure after a storage fault
StartFails(h) ==
  /\ BagIn(h, handlers)
  /\ h.pc \in {"start_insert", "start_rollback"}
  /\ handlers' = handlers (-) One(h)
  /\ result' = Thrown

\* no trace of the start call of h is left: its session is not stored, the
\* active sessions are those from before the call, the counter of the
\* station has the value the call read when it began
Undone(h) ==
  /\ h.session \notin DOMAIN sessions'
  /\ \A s \in Stations : ActiveIds(s)' = ActiveIds(s) \ {h.session}
  /\ availableChargers'[h.station] = h.avail

C10_NoCapacityNoEffect ==
  [][\A sid \in Stations, uid \in Users :
       AvailOf(sid) <= 0 /\ StartGetStation(sid, uid)
         => /\ result' = NoAvailableChargers
            /\ UNCHANGED <<sessions, availableChargers, nextId, handlers>>]_vars

\* C10 witness: a start has just been refused on a station whose counter is 0.
C10_Witness ==
  /\ result = NoAvailableChargers
  /\ \E s \in Stations : AvailOf(s) = 0

\* the answers by which an end call is refused
EndRefusals == {SessionNotFound, Forbidden, AlreadyEnded}

\* C11: an end call answered "Session not found", "Session already ended"
\* or "Cannot end another user's session" changes no counter and no
\* session, and the counter is raised only by an end call that itself moved
\* its session from active to ended: over a window of end calls without
\* storage fault, the counter of a station has risen by no more than the
\* number of its sessions that went from active to ended.
C11_ReleaseOnlyByTheEndingCall ==
  /\ [][result' \in EndRefusals => UNCHANGED <<availableChargers, sessions>>]_vars
  /\ [](\A s \in Stations :
          CleanWindow /\ OnlyEnds
            => AvailOf(s) - w.base[s] <= w.baseActive[s] - ActiveCount(s))

\* C12 (scenario E): an end call for a session that has an owner, by a
\* requester who is not that owner, is answered "Cannot end another user's
\* session" and changes nothing; an end call for an active session without
\* owner is refused to no requester: the call goes on to end the session.
C12_OnlyTheOwnerEnds ==
  [][\A i \in SessionIds, uid \in Users, b \in EndInputs :
       i \in DOMAIN sessions /\ EndGetSession(i, uid, b)
         => IF sessions[i].userId # NoUser /\ sessions[i].userId # uid
              THEN /\ result' = Forbidden
                   /\ UNCHANGED <<sessions, availableChargers, handlers>>
              ELSE /\ result' # Forbidden
                   /\ sessions[i].isActive
                        => \E h \in BagToSet(handlers') :
                             h.pc = "end_endSession" /\ h.session = i]_vars

\* C12 witness: a session without owner has been ended, and an end call for
\* the active session of another user has just been refused.
C12_Witness ==
  /\ result = Forbidden
  /\ \E i \in DOMAIN sessions : sessions[i].userId = NoUser /\ ~sessions[i].isActive
  /\ \E i \in DOMAIN sessions : sessions[i].userId # NoUser /\ sessions[i].isActive

\* C13: an end call that has ended its session and finds the counter of the
\* station at (or above) the charger count writes nothing to the counter
\* and still answers 200 with the ended session.
C13_NoReleaseAtCapacity ==
  [][\A h \in Suspended :
       ( /\ h.pc = "end_getStation"
         /\ AvailOf(h.station) >= TotalOf(h.station)
         /\ EndGetStation(h) )
       => /\ result' = Ended(h.session)
          /\ handlers' = handlers (-) One(h)
          /\ UNCHANGED <<availableChargers, sessions>>
          /\ AvailOf(h.station) = TotalOf(h.station)
          /\ h.session \in DOMAIN sessions => ~sessions[h.session].isActive]_vars

\* C13 witness: at rest after a single end call answered 200 on a station
\* whose counter was at the charger count before the call and still is.
C13_Witness ==
  /\ Quiescent
  /\ result.status = 200
  /\ \E s \in Stations :
       /\ ~w.other /\ w.ended[s] = 1 /\ w.created[s] = 0
       /\ w.base[s] = TotalOf(s) /\ AvailOf(s) = TotalOf(s)
       /\ result.session \in DOMAIN sessions
       /\ sessions[result.session].stationId = s
       /\ ~sessions[result.session].isActive

\* the window that is over was a single end call answered 200, for the
\* session created by the single start call of the window before
RoundTrip ==
  /\ CleanWindow
  /\ w.prev # NoStart
  /\ result = Ended(w.prev.session)
  /\ \A s \in Stations : w.created[s] = 0 /\ w.exhausted[s] = 0
  /\ \A s \in Stations :
       w.ended[s] = IF s = sessions[w.prev.session].stationId THEN 1 ELSE 0

\* C14 (scenario C): a start answered 201 followed, with no call in
\* between, by the end of the same session answered 200: the start took the
\* counter of the station down by one (from 1 to 0 when it was 1), the end
\* brought it back to its value before the start, and the session is ended.
C14_StartThenEndRestores ==
  RoundTrip
    => LET s == sessions[w.prev.session].stationId
       IN  /\ w.base[s] = w.prev.before - 1
           /\ AvailOf(s) = w.prev.before
           /\ ~sessions[w.prev.session].isActive

\* C14 witness: scenario C itself, the counter went 1, 0, 1.
C14_Witness ==
  /\ RoundTrip
  /\ w.prev.before = 1
  /\ w.base[sessions[w.prev.session].stationId] = 0
  /\ AvailOf(sessions[w.prev.session].stationId) = 1

\* the calls that have read the counter of station s and have yet to write
\* it: a start between getStation and updateStationAvailability, an end
\* between getStation and updateStationAvailability
CounterHolders(s) ==
  [h \in {x \in Suspended :
            x.station = s /\ x.pc \in {"start_insert", "start_update", "end_update"}}
     |-> CopiesIn(h, handlers)]

\* C15: reserve and release are serialized per station: a call that has
\* read the counter of a station writes it before any other call reads or
\* writes that counter, so at no time two calls are between their read and
\* their write of the same station's counter.
C15_SerializedPerStation ==
  \A s \in Stations : BagCardinality(CounterHolders(s)) <= 1

\* C16 as stated: every change of a station's counter is a decrement by
\* exactly one made by a start answered 201 or an increment by exactly one
\* made by an end answered 200.
C16_OnlyReserveAndRelease ==
  [][\A s \in Stations :
       availableChargers'[s] # availableChargers[s]
         => \/ /\ availableChargers'[s] = availableChargers[s] - 1
               /\ result'.status = 201
            \/ /\ availableChargers'[s] = availableChargers[s] + 1
               /\ result'.status = 200 /\ result'.session # NULL]_vars

\* C16 amended: every change of a station's counter is the last statement
\* of a start answered 201, which writes the value the call read less one,
\* of an end answered 200, which writes the value the call read plus one,
\* or of an availability update answered 200, which sets the counter to the
\* requested value, a value from 0 to the charger count.
C16_OnlyStartEndAndUpdate ==
  [][\A s \in Stations :
       availableChargers'[s] # availableChargers[s]
         => \E h \in Suspended :
              /\ h.station = s
              /\ handlers' = handlers (-) One(h)
              /\ \/ /\ h.pc = "start_update"
                    /\ result' = Created(h.session)
                    /\ availableChargers'[s] = h.avail - 1
                 \/ /\ h.pc = "end_update"
                    /\ result' = Ended(h.session)
                    /\ availableChargers'[s] = h.avail + 1
                 \/ /\ h.pc = "patch_update"
                    /\ result' = Updated
                    /\ availableChargers'[s] = h.avail
                    /\ 0 <= h.avail /\ h.avail <= TotalOf(s)]_vars

\* C16 witness: no session was ever created, and an availability update has
\* just set the counter of a station to a value of its own.
C16_Witness ==
  /\ result = Updated
  /\ nextId = 1
  /\ \E s \in Stations : AvailOf(s) # TotalOf(s)

\* C17 as stated: no active session is stored whose start call has not yet
\* decremented the counter.
C17_ReservedBeforeCreated ==
  \A h \in Suspended :
    h.pc \in {"start_update", "start_rollback"}
      => ~(h.session \in DOMAIN sessions /\ sessions[h.session].isActive)

\* C17 amended: the start call stores its session, active, before it writes
\* the counter: the insert leaves the counter as it is and the call goes on
\* to the counter update; a start is answered 201 only by the step that
\* writes the counter (the value read by the call, less one), so the caller
\* gets the session with the counter already written.
C17_CreatedThenReserved ==
  [][/\ \A h \in Suspended :
          h.pc = "start_insert" /\ StartInsert(h)
            => /\ nextId \in DOMAIN sessions' /\ sessions'[nextId].isActive
               /\ sessions'[nextId].stationId = h.station
               /\ UNCHANGED availableChargers
               /\ \E g \in BagToSet(handlers') :
                    g.pc = "start_update" /\ g.session = nextId
     /\ result'.status = 201
          => \E h \in Suspended :
               /\ h.pc = "start_update"
               /\ result' = Created(h.session)
               /\ handlers' = handlers (-) One(h)
               /\ availableChargers'[h.station] = h.avail - 1]_vars

\* C17 witness: a session is stored and active while the call that created
\* it has yet to write the counter, which still has the value the call read.
C17_Witness ==
  \E h \in Suspended :
    /\ h.pc = "start_update"
    /\ h.session \in DOMAIN sessions /\ sessions[h.session].isActive
    /\ AvailOf(h.station) = h.avail

\* C18 as stated: a stored session is stored in every later state.
C18_SessionsNeverRemoved ==
  [][\A i \in DOMAIN sessions : i \in DOMAIN sessions']_vars

\* C18 amended: a session record is removed only by the start call that
\* created it, in the rollback that follows the failure of its counter
\* update, and that call is answered with the failure; the rollback removes
\* that record and no other.
C18_RemovedOnlyByOwnRollback ==
  [][\A i \in DOMAIN sessions :
       i \notin DOMAIN sessions'
         => \E h \in Suspended :
              /\ h.pc = "start_rollback" /\ h.session = i
              /\ handlers' = handlers (-) One(h)
              /\ result' = Thrown
              /\ DOMAIN sessions' = DOMAIN sessions \ {i}
              /\ \A j \in DOMAIN sessions' : sessions'[j] = sessions[j]]_vars

\* C18 witness: a start has just failed and its session is gone, while a
\* session stored before is still there.
C18_Witness ==
  /\ result = Thrown
  /\ DOMAIN sessions # {}
  /\ \E i \in 1..(nextId - 1) : i \notin DOMAIN sessions

\* C19: ENDED is terminal: a session that is ended is never active again,
\* and what the ending call stored in it (endTime, durationMinutes,
\* batteryEndPercent, energyKwh) is not changed by any later or concurrent
\* end call: as long as it is stored, an ended session stays as it is.
C19_EndedIsFinal ==
  [][\A i \in DOMAIN sessions :
       ~sessions[i].isActive /\ i \in DOMAIN sessions'
         => sessions'[i] = sessions[i]]_vars

\* the station a suspended call acts on: the station named by a start or
\* an availability update, the station of the session of an end
ActsOn(h) ==
  IF h.station # NULL THEN h.station
  ELSE IF h.session \in DOMAIN sessions THEN sessions[h.session].stationId
  ELSE NULL

\* the sessions of station s, as stored
SessionsOf(s) ==
  [i \in {j \in DOMAIN sessions : sessions[j].stationId = s} |-> sessions[i]]

\* the next statement of the suspended call h
StepOf(h) ==
  \/ StartInsert(h) \/ StartUpdate(h) \/ StartRollback(h)
  \/ EndEndSession(h) \/ EndGetStation(h) \/ EndUpdate(h)
  \/ PatchUpdate(h)

\* C20: calls on different stations are independent: whenever the counter
\* or a session of a station changes, the step is a statement of a call
\* acting on that station, so a call on station A leaves the counter and
\* the sessions of every other station as they are; and no call waits for
\* another: the next statement of every suspended call can run at once,
\* whatever calls are in progress.
C20_StationsIndependent ==
  /\ [][\A s \in Stations :
          availableChargers'[s] # availableChargers[s] \/ SessionsOf(s)' # SessionsOf(s)
            => \E h \in Suspended :
                 /\ CopiesIn(h, handlers') < CopiesIn(h, handlers)
                 /\ ActsOn(h) = s]_vars
  /\ [](\A h \in Suspended : ENABLED StepOf(h))

\* C20 witness: a start on station 1 has just been answered 201 and has
\* taken the counter of station 1 down, while a call on station 2 is
\* between its read and its write of the counter of station 2, which is
\* still as that call read it.
C20_Witness ==
  /\ result.status = 201
  /\ sessions[result.session].stationId = 1
  /\ AvailOf(1) < TotalOf(1)
  /\ \E h \in Suspended :
       /\ h.pc \in {"start_update", "end_update"}
       /\ h.station = 2
       /\ AvailOf(2) = h.avail

\* the counter of station s after a release from the value v
Released(s, v) == IF v < TotalOf(s) THEN v + 1 ELSE v

\* C21: a start or end call that completes leaves the system consistent
\* (one request at a time): after a start, either its session is stored and
\* the counter is one lower than before, or no session of it is stored and
\* the counter is as before; after an end, either the session is ended and
\* the charger released, or the session is still active and the counter as
\* before.
C21_CompletesConsistently ==
  [][\A h \in Suspended :
       handlers' = handlers (-) One(h)
         => /\ h.pc \in {"start_insert", "start_update", "start_rollback"}
                 => \/ /\ h.session \in DOMAIN sessions'
                       /\ availableChargers'[h.station] = h.avail - 1
                    \/ /\ h.session \notin DOMAIN sessions'
                       /\ availableChargers'[h.station] = h.avail
            /\ ( /\ h.pc \in {"end_endSession", "end_getStation", "end_update"}
                 /\ h.session \in DOMAIN sessions' )
                 => LET s == sessions'[h.session].stationId
                    IN  \/ /\ ~sessions'[h.session].isActive
                           /\ availableChargers'[s] = Released(s, w.base[s])
                        \/ /\ sessions'[h.session].isActive
                           /\ availableChargers'[s] = w.base[s]]_vars

\* the four causes of a rejection: a start on a station without free
\* charger, a start that fails on a storage fault, an end by a requester who
\* is not the owner, an end of a session that is already ended
RejectedForCapacity ==
  \E sid \in Stations, uid \in Starters :
    AvailOf(sid) <= 0 /\ StartGetStation(sid, uid)
RejectedForFault ==
  \E h \in Suspended :
    StartInsertFails(h) \/ StartRollback(h) \/ StartRollbackFails(h)
RejectedForOwnership ==
  \E i \in DOMAIN sessions, uid \in Users, b \in EndInputs :
    /\ sessions[i].userId # NoUser /\ sessions[i].userId # uid
    /\ EndGetSession(i, uid, b)
RejectedAsEnded ==
  \E i \in DOMAIN sessions, uid \in Users, b \in EndInputs :
    /\ sessions[i].userId = NoUser \/ sessions[i].userId = uid
    /\ ~sessions[i].isActive
    /\ EndGetSession(i, uid, b)

\* C22: the four rejections are told apart by their answers: each cause has
\* an answer of its own, which none of the other three causes produces.
C22_OutcomesDistinguishable ==
  [][/\ RejectedForCapacity
          => /\ result' = Resp(400, "No available chargers", NULL)
             /\ result' \notin {Thrown, Forbidden, AlreadyEnded}
     /\ RejectedForFault
          => /\ result' = Resp(500, "Internal Server Error", NULL)
             /\ result' \notin {NoAvailableChargers, Forbidden, AlreadyEnded}
     /\ RejectedForOwnership
          => /\ result' = Resp(403, "Cannot end another user's session", NULL)
             /\ result' \notin {NoAvailableChargers, Thrown, AlreadyEnded}
     /\ RejectedAsEnded
          => /\ result'.message = "Session already ended"
             /\ result' \notin {NoAvailableChargers, Thrown, Forbidden}]_vars

\* C22 witness: an end has just been refused as already ended in a state
\* where a start would be refused for capacity.
C22_Witness ==
  /\ result.message = "Session already ended"
  /\ \E s \in Stations : AvailOf(s) <= 0

\* C23 (one request at a time): a start on an existing station that meets
\* no storage fault is answered 201 if the counter of the station is above
\* 0 when the call is made and "No available chargers" if it is not,
\* however many sessions are active on the station.
C23_StartSucceedsIffCapacity ==
  \A s \in Stations :
    CleanWindow /\ w.created[s] + w.exhausted[s] = 1
      => /\ w.created[s] = 1 <=> w.base[s] > 0
         /\ w.exhausted[s] = 1 <=> w.base[s] <= 0
         /\ w.created[s] = 1 => ActiveCount(s) = w.baseActive[s] + 1
         /\ w.exhausted[s] = 1 => ActiveCount(s) = w.baseActive[s]

\* C23 witness: a start has been answered 201 on a station all of whose
\* chargers already had an active session (the counter had been set above 0
\* by an availability update).
C23_Witness ==
  \E s \in Stations :
    /\ CleanWindow /\ w.created[s] = 1 /\ w.exhausted[s] = 0
    /\ w.baseActive[s] >= TotalOf(s)
    /\ result.status = 201

\* C24: the query for the active session of a station changes no session
\* and no counter; it answers with a session of that station that is
\* active if there is one, and with none exactly if the station has no
\* active session.
C24_ActiveSessionQuery ==
  [][\A sid \in StationIds :
       GetActive(sid)
         => /\ UNCHANGED <<sessions, availableChargers, chargerCount, nextId>>
            /\ result'.status = 200
            /\ result'.session = NULL
                 <=> ~\E i \in DOMAIN sessions :
                        sessions[i].stationId = sid /\ sessions[i].isActive
            /\ result'.session # NULL
                 => /\ result'.session \in DOMAIN sessions
                    /\ sessions[result'.session].stationId = sid
                    /\ sessions[result'.session].isActive]_vars

\* C24 witness: the query has just answered with the active session of a
\* station that also has an ended session, while a call is in progress.
C24_Witness ==
  /\ result.status = 200 /\ result.session \in DOMAIN sessions
  /\ sessions[result.session].isActive
  /\ ~Quiescent
  /\ \E i \in DOMAIN sessions :
       /\ ~sessions[i].isActive
       /\ sessions[i].stationId = sessions[result.session].stationId

\* C25: when the rollback of a failed start fails as well, so that the
\* call ends with its session left behind, a reconciliation event with the
\* station and the session is on record.
C25_FailedRollbackRecorded ==
  [][\A h \in Suspended :
       ( /\ h.pc = "start_rollback"
         /\ handlers' = handlers (-) One(h)
         /\ h.session \in DOMAIN sessions' )
       => [station |-> h.station, session |-> h.session] \in reconciliationEvents]_vars

\* C26: an end call tests for "not found" first, then for the owner, then
\* for "already ended": a session id that is not stored gives "Session not
\* found" to every requester, a requester who is not the owner gets "Cannot
\* end another user's session" also for a session that is already ended,
\* and "Session already ended" goes to the owner (or, for a session without
\* owner, to anyone).
C26_EndChecksInOrder ==
  [][\A i \in SessionIds, uid \in Users, b \in EndInputs :
       EndGetSession(i, uid, b)
         => IF i \notin DOMAIN sessions
              THEN result'.status = 404 /\ result'.message = "Session not found"
              ELSE IF sessions[i].userId # NoUser /\ sessions[i].userId # uid
                THEN result'.status = 403
                ELSE IF ~sessions[i].isActive
                  THEN result'.status = 400 /\ result'.message = "Session already ended"
                  ELSE result' = NoResponse]_vars

\* C26 witness: every stored session is ended, and an end call by someone
\* who is not the owner has just been answered 403.
C26_Witness ==
  /\ result.status = 403
  /\ DOMAIN sessions # {}
  /\ \A i \in DOMAIN sessions : ~sessions[i].isActive

\* C27: a session is active exactly when its endTime is null, and while it
\* is active its durationMinutes is null; a step that creates a session
\* creates it active with endTime and durationMinutes null, and a step that
\* ends a session stores its endTime in that same step
TimesMatchState ==
  \A i \in DOMAIN sessions :
    /\ sessions[i].isActive <=> sessions[i].endTime = NoTime
    /\ sessions[i].isActive => sessions[i].durationMinutes = NoTime
CreatedActive ==
  \A i \in DOMAIN sessions' \ DOMAIN sessions :
    /\ sessions'[i].isActive
    /\ sessions'[i].endTime = NoTime
    /\ sessions'[i].durationMinutes = NoTime
EndedWithTime ==
  \A i \in DOMAIN sessions \cap DOMAIN sessions' :
    (sessions[i].isActive /\ ~sessions'[i].isActive)
      <=> (sessions[i].endTime = NoTime /\ sessions'[i].endTime = now)
C27_ActiveIffNoEndTime ==
  /\ []TimesMatchState
  /\ [][CreatedActive /\ EndedWithTime]_vars
C27_Witness ==
  /\ now > 0
  /\ \E i, j \in DOMAIN sessions :
       /\ sessions[i].isActive /\ sessions[i].endTime = NoTime
       /\ ~sessions[j].isActive /\ sessions[j].endTime = now
       /\ sessions[j].startTime < now

\* C28: the durationMinutes of an ended session is the number of
\* milliseconds from its startTime to its endTime divided by 60000 and
\* rounded to the nearest integer, a half rounded up; the endTime is not
\* before the startTime and the duration is not negative; 89999 ms give 1
\* and 90000 ms give 2
Elapsed(i) == sessions[i].endTime - sessions[i].startTime
C28_DurationRounded ==
  \A i \in DOMAIN sessions :
    ~sessions[i].isActive =>
      /\ Elapsed(i) >= 0
      /\ sessions[i].durationMinutes >= 0
      /\ 2 * 60000 * sessions[i].durationMinutes - 60000 <= 2 * Elapsed(i)
      /\ 2 * Elapsed(i) < 2 * 60000 * sessions[i].durationMinutes + 60000
      /\ Elapsed(i) = 89999 => sessions[i].durationMinutes = 1
      /\ Elapsed(i) = 90000 => sessions[i].durationMinutes = 2
C28_Witness ==
  \E i, j \in DOMAIN sessions :
    /\ ~sessions[i].isActive /\ Elapsed(i) = 89999 /\ sessions[i].durationMinutes = 1
    /\ ~sessions[j].isActive /\ Elapsed(j) = 90000 /\ sessions[j].durationMinutes = 2

\* C29 (start and end calls one at a time, no storage fault, no availability
\* update): whenever no call is in progress, the available chargers of every
\* station plus its active sessions equal its charger count, and the
\* available chargers lie between 0 and the charger count.
C29_SequentialKeepsInvariant ==
  Quiescent =>
    \A s \in Stations :
      /\ Consistent(s)
      /\ 0 <= AvailOf(s)
      /\ AvailOf(s) <= TotalOf(s)

\* C29 witness: at rest after a start, an end and another start: a station
\* holds an ended session and an active one.
C29_Witness ==
  /\ Quiescent
  /\ result.status = 201
  /\ \E i, j \in DOMAIN sessions :
       /\ sessions[i].stationId = sessions[j].stationId
       /\ ~sessions[i].isActive
       /\ sessions[j].isActive

\* C30: a start call for a station that does not exist is answered 404
\* "Station not found"; it creates no session, changes no session and no
\* counter, and leaves no handler suspended.
C30_StartOnMissingStation ==
  [][\A uid \in Owners :
       StartGetStation(MissingStation, uid)
         => /\ result' = Resp(404, "Station not found", NULL)
            /\ UNCHANGED <<sessions, availableChargers, chargerCount, nextId, handlers>>]_vars

\* C30 witness: the refusal has been sent while sessions exist, one of them
\* active.
C30_Witness ==
  /\ result = Resp(404, "Station not found", NULL)
  /\ Quiescent
  /\ \E s \in Stations : ActiveIds(s) # {} /\ AvailOf(s) < TotalOf(s)

====
